---- MODULE Spec2Model ----
(***************************************************************************)
(* Model of orca/model/components/block_transformer.py: the token groups,  *)
(* the attention-mask builder, the token assembler/disassembler and the    *)
(* forward pass of BlockTransformer.                                       *)
(*                                                                         *)
(* Tensors are modelled by their shape and their content along the token   *)
(* axes.  The batch axis is kept in the shape (it decides which            *)
(* concatenations are legal) and in the pad mask and the attention mask;   *)
(* token content is the same symbolic value for every batch element.  The  *)
(* embedding axis is not modelled.  Python's 0-based positions are kept    *)
(* for flattened token positions; Python lists are TLA+ sequences, so      *)
(* list index k of the source is index k+1 here.                           *)
(***************************************************************************)
EXTENDS Integers, Sequences, FiniteSets, TLC

VARIABLES
    prefix_groups,        \* argument of __call__ / generate_attention_mask
    timestep_groups,      \* argument of __call__ / generate_attention_mask
    timestep_pad_mask,    \* argument: pad_mask[b][t], shape (batch, horizon)
    pc,                   \* "input"; "mask_done"; "done", "failed" (of __call__)
    steps,                \* the stages of __call__ that have run, in order
    attention_mask,       \* result of generate_attention_mask
    input_tokens,         \* result of assemble_input_tokens
    output,               \* result of the encoder
    all_prefix_outputs,   \* first component of the value __call__ returns
    all_timestep_outputs, \* second component of the value __call__ returns
    error,                \* the exception __call__ raised, "none" if none
    \* orca/data/oxe/oxe_dataset_mixes.py
    registered,           \* the registry as oxe_dataset_configs defines it
    OXE_DATASET_KWARGS,   \* the registry object in memory: name -> dict
    data_mix,             \* argument: list of (dataset name, weight)
    data_dir,             \* argument
    deduplicate,          \* argument
    n_third_person_cameras, \* argument
    n_wrist_cameras,      \* argument
    load_depth,           \* argument
    load_proprio,         \* argument
    mix_pc,               \* "idle"; "input"; "done", "failed" (of the call)
    data_kwargs_list,     \* first component of the returned pair
    weights,              \* second component of the returned pair
    printed,              \* the diagnostics the call printed, in order
    mix_error,            \* the exception the call raised, "none" if none
    n_calls,              \* the number of calls made in this process
    \* orca/model/components/tokenizers.py
    regex_keys,           \* argument of extract_inputs
    inputs,               \* argument of extract_inputs: key -> tensor
    check_spatial,        \* argument of extract_inputs
    extract_pc,           \* "idle"; "input"; "done", "failed"
    extracted_outputs     \* the list extract_inputs returns

transformer_vars == <<prefix_groups, timestep_groups, timestep_pad_mask, pc, steps, attention_mask, input_tokens, output, all_prefix_outputs, all_timestep_outputs, error>>

mix_vars == <<registered, OXE_DATASET_KWARGS, data_mix, data_dir, deduplicate, n_third_person_cameras, n_wrist_cameras, load_depth, load_proprio, mix_pc, data_kwargs_list, weights, printed, mix_error, n_calls>>

tokenizer_vars == <<regex_keys, inputs, check_spatial, extract_pc, extracted_outputs>>

vars == <<prefix_groups, timestep_groups, timestep_pad_mask, pc, steps,
          attention_mask, input_tokens, output, all_prefix_outputs,
          all_timestep_outputs, error,
          registered, OXE_DATASET_KWARGS, data_mix, data_dir, deduplicate,
          n_third_person_cameras, n_wrist_cameras, load_depth, load_proprio,
          mix_pc, data_kwargs_list, weights, printed, mix_error, n_calls,
          regex_keys, inputs, check_spatial, extract_pc, extracted_outputs>>

\* no call of make_oxe_dataset_kwargs_and_weights is in progress or was made
MixIdle ==
    /\ registered = <<>>
    /\ OXE_DATASET_KWARGS = <<>>
    /\ data_mix = <<>>
    /\ data_dir = ""
    /\ deduplicate = TRUE
    /\ n_third_person_cameras = 1
    /\ n_wrist_cameras = 0
    /\ load_depth = TRUE
    /\ load_proprio = TRUE
    /\ mix_pc = "idle"
    /\ data_kwargs_list = <<>>
    /\ weights = <<>>
    /\ printed = <<>>
    /\ mix_error = "none"
    /\ n_calls = 0

\* no call of extract_inputs is in progress or was made
TokenizerIdle ==
    /\ regex_keys = <<>>
    /\ inputs = <<>>
    /\ check_spatial = FALSE
    /\ extract_pc = "idle"
    /\ extracted_outputs = <<>>

(***************************************************************************)
(* Bounds of the model.                                                    *)
(***************************************************************************)
MaxTokens == 2
MaxHorizon == 2
\* names a caller may give to a group, and list in attends_to
GroupNames == {"task", "obs"}

\* BlockTransformer.num_attention_heads: a field of the module, 8 by default;
\* the model instantiates the module with 2 heads.
num_attention_heads == 2

(***************************************************************************)
(* Helpers: sums and Python list operations.                               *)
(***************************************************************************)
RECURSIVE sum(_)
sum(s) == IF s = <<>> THEN 0 ELSE Head(s) + sum(Tail(s))

\* np.cumsum
cumsum(s) == [k \in 1..Len(s) |-> sum(SubSeq(s, 1, k))]

\* np.searchsorted(a, v) with the default side="left": the first 0-based
\* index idx with v <= a[idx], len(a) when there is none.  a is sorted.
searchsorted(a, v) == Cardinality({k \in DOMAIN a : a[k] < v})

RECURSIVE concat(_)
concat(ss) == IF ss = <<>> THEN <<>> ELSE Head(ss) \o concat(Tail(ss))

\* jnp.split(ary, indices) along the first modelled axis: len(indices)+1 pieces
split(ary, indices) ==
    [k \in 1..(Len(indices) + 1) |->
        LET lo == IF k = 1 THEN 0 ELSE indices[k - 1]
            hi == IF k = Len(indices) + 1 THEN Len(ary) ELSE indices[k]
        IN  SubSeq(ary, lo + 1, hi)]

\* zip(xs, ys): as long as the shorter list
ZipLen(xs, ys) == IF Len(xs) <= Len(ys) THEN Len(xs) ELSE Len(ys)

(***************************************************************************)
(* Token groups.                                                           *)
(***************************************************************************)
\* tokens.shape[axis], axis counted from 0 as in the source
Shape(tokens, axis) == tokens.shape[axis + 1]

\* PrefixGroup(name, tokens, attends_to); tokens.shape = (batch, n_tokens)
PrefixGroup(name, tokens, attends_to) ==
    [name |-> name, tokens |-> tokens, attends_to |-> attends_to]

\* TimestepGroup(name, tokens, attends_to);
\* tokens.shape = (batch, horizon, n_tokens)
TimestepGroup(name, tokens, attends_to) ==
    [name |-> name, tokens |-> tokens, attends_to |-> attends_to]

TokenMetadata(group_name, timestep, attends_to) ==
    [group_name |-> group_name, timestep |-> timestep, attends_to |-> attends_to]

\* a plausible slip: a group rebuilt from its name and the embeddings alone
replace_without_attends_to(group, embeddings) ==
    [name |-> group.name, tokens |-> embeddings, attends_to |-> {}]

\* dataclasses.replace(group, tokens=embeddings)
replace(group, embeddings) ==
    [name |-> group.name, tokens |-> embeddings, attends_to |-> group.attends_to]

\* The token tensor a caller passes for the k-th prefix group: each token is
\* a distinct symbolic value.
PrefixTokens(k, batch, n_tokens) ==
    [shape |-> <<batch, n_tokens>>,
     data  |-> [s \in 1..n_tokens |->
                   [kind |-> "prefix", group |-> k, t |-> -1, s |-> s - 1]]]

\* The token tensor a caller passes for the k-th timestep group.
TimestepTokens(k, batch, horizon, n_tokens) ==
    [shape |-> <<batch, horizon, n_tokens>>,
     data  |-> [t \in 1..horizon |-> [s \in 1..n_tokens |->
                   [kind |-> "timestep", group |-> k, t |-> t - 1, s |-> s - 1]]]]

(***************************************************************************)
(* generate_pad_attention_mask                                             *)
(***************************************************************************)
\* a plausible slip: the pad mask tiled (jnp.tile) where it is to be repeated
full_mask_tiled(pad_mask, tokens_per_time_step, tokens_for_prefix, b, j) ==
    IF j < tokens_for_prefix
    THEN TRUE
    ELSE pad_mask[b][((j - tokens_for_prefix) % Len(pad_mask[b])) + 1]

\* full_mask[b][j] of the source (before the broadcast), j a 0-based column:
\* ones for the prefix, then jnp.repeat(pad_mask, tokens_per_time_step, axis=1)
full_mask(pad_mask, tokens_per_time_step, tokens_for_prefix, b, j) ==
    IF j < tokens_for_prefix
    THEN TRUE
    ELSE pad_mask[b][((j - tokens_for_prefix) \div tokens_per_time_step) + 1]

\* jnp.broadcast_to(full_mask[:, None, None, :], (batch, heads, total, total))
generate_pad_attention_mask(pad_mask, tokens_per_time_step, tokens_for_prefix) ==
    LET horizon == Len(pad_mask[1])
        total_tokens == tokens_for_prefix + tokens_per_time_step * horizon
    IN  [b \in 1..Len(pad_mask) |-> [h \in 1..num_attention_heads |->
            [i \in 0..(total_tokens - 1) |-> [j \in 0..(total_tokens - 1) |->
                full_mask(pad_mask, tokens_per_time_step, tokens_for_prefix, b, j)]]]]

(***************************************************************************)
(* generate_attention_mask                                                 *)
(***************************************************************************)
_get_position(i, tokens_per_elem) == searchsorted(cumsum(tokens_per_elem), i)

tokens_per_prefix_group(pgs) == [k \in 1..Len(pgs) |-> Shape(pgs[k].tokens, 1)]
tokens_per_timestep_group(tgs) == [k \in 1..Len(tgs) |-> Shape(tgs[k].tokens, 2)]

get_token_description(i, pgs, tgs) ==
    LET tokens_for_prefix == sum(tokens_per_prefix_group(pgs))
        tokens_per_time_step == sum(tokens_per_timestep_group(tgs))
    IN  IF i < tokens_for_prefix
        THEN LET position == _get_position(i, tokens_per_prefix_group(pgs))
                 group == pgs[position + 1]
             IN  TokenMetadata(group.name, -1, group.attends_to)
        ELSE LET i2 == i - tokens_for_prefix
                 timestep == i2 \div tokens_per_time_step
                 i3 == i2 % tokens_per_time_step
                 position == _get_position(i3, tokens_per_timestep_group(tgs))
                 group == tgs[position + 1]
             IN  TokenMetadata(group.name, timestep, group.attends_to)

\* a plausible slip: the timesteps compared strictly
mask_entry_strict(description_i, description_j) ==
    IF description_i.group_name = description_j.group_name
    THEN description_i.timestep < description_j.timestep
    ELSE IF description_j.group_name \in description_i.attends_to
         THEN description_i.timestep < description_j.timestep
         ELSE FALSE

\* the if/elif/else of the double loop: the entry for token i (attending) and
\* token j (being attended to)
mask_entry(description_i, description_j) ==
    IF description_i.group_name = description_j.group_name
    THEN description_i.timestep <= description_j.timestep
    ELSE IF description_j.group_name \in description_i.attends_to
         THEN description_i.timestep <= description_j.timestep
         ELSE FALSE

\* the table of get_token_description(i) for every flattened position i
token_descriptions(pgs, tgs, total_tokens) ==
    [i \in 0..(total_tokens - 1) |-> get_token_description(i, pgs, tgs)]

\* attention_mask after the double loop over i (token attending) and j (token
\* being attended to): a total_tokens x total_tokens matrix
loop_attention_mask(description, total_tokens) ==
    [i \in 0..(total_tokens - 1) |-> [j \in 0..(total_tokens - 1) |->
        mask_entry(description[i], description[j])]]

\* jnp.logical_and(attention_mask, pad_attention_mask): the matrix is broadcast
\* over the batch and head axes of the pad attention mask
logical_and(attention, pad_attention_mask) ==
    [b \in DOMAIN pad_attention_mask |-> [h \in DOMAIN pad_attention_mask[b] |->
        [i \in DOMAIN attention |-> [j \in DOMAIN attention[i] |->
            attention[i][j] /\ pad_attention_mask[b][h][i][j]]]]]

\* (the tables are bound by set membership so that each is evaluated once,
\* not once per mask entry)
generate_attention_mask(pgs, tgs, pad_mask) ==
    LET horizon == Len(pad_mask[1])
        tokens_for_prefix == sum(tokens_per_prefix_group(pgs))
        tokens_per_time_step == sum(tokens_per_timestep_group(tgs))
        total_tokens == tokens_for_prefix + tokens_per_time_step * horizon
    IN  CHOOSE m \in
            {logical_and(attention, pad_attention_mask) :
                attention \in
                    {loop_attention_mask(description, total_tokens) :
                        description \in
                            {token_descriptions(pgs, tgs, total_tokens)}},
                pad_attention_mask \in
                    {generate_pad_attention_mask(pad_mask, tokens_per_time_step,
                                                 tokens_for_prefix)}} : TRUE

(***************************************************************************)
(* assemble_input_tokens                                                   *)
(***************************************************************************)
\* jnp.concatenate(arrays, axis) is defined only when the arrays agree on
\* every other axis; axes are counted from 0
SameShapeExcept(tensors, axis) ==
    \A a \in DOMAIN tensors, b \in DOMAIN tensors :
        /\ Len(tensors[a].shape) = Len(tensors[b].shape)
        /\ \A x \in DOMAIN tensors[a].shape :
               x # axis + 1 => tensors[a].shape[x] = tensors[b].shape[x]

\* all_prefix_tokens: the prefix groups' tokens concatenated on axis 1, or
\* the (batch, 0) placeholder with the batch size of timestep_groups[0]
all_prefix_tokens(pgs, tgs) ==
    IF Len(pgs) > 0
    THEN [shape |-> <<Shape(pgs[1].tokens, 0),
                      sum([k \in 1..Len(pgs) |-> Shape(pgs[k].tokens, 1)])>>,
          data  |-> concat([k \in 1..Len(pgs) |-> pgs[k].tokens.data])]
    ELSE [shape |-> <<Shape(tgs[1].tokens, 0), 0>>, data |-> <<>>]

\* the timestep groups' tokens concatenated on axis 2:
\* shape (batch, horizon, tokens per time step)
concat_timestep_tokens(tgs) ==
    LET horizon == Shape(tgs[1].tokens, 1)
    IN  [shape |-> <<Shape(tgs[1].tokens, 0), horizon,
                     sum([k \in 1..Len(tgs) |-> Shape(tgs[k].tokens, 2)])>>,
         data  |-> [t \in 1..horizon |->
                      concat([k \in 1..Len(tgs) |-> tgs[k].tokens.data[t]])]]

\* einops.rearrange(x, "batch horizon n_tokens d -> batch (horizon n_tokens) d")
fold_horizon(x) ==
    [shape |-> <<Shape(x, 0), Shape(x, 1) * Shape(x, 2)>>,
     data  |-> concat(x.data)]

\* whether every concatenation of assemble_input_tokens is defined
assemble_defined(pgs, tgs) ==
    /\ SameShapeExcept([k \in 1..Len(pgs) |-> pgs[k].tokens], 1)
    /\ SameShapeExcept([k \in 1..Len(tgs) |-> tgs[k].tokens], 2)
    /\ Shape(all_prefix_tokens(pgs, tgs), 0) = Shape(tgs[1].tokens, 0)

assemble_input_tokens(pgs, tgs) ==
    LET prefix == all_prefix_tokens(pgs, tgs)
        all_timestep_tokens == fold_horizon(concat_timestep_tokens(tgs))
    IN  [shape |-> <<Shape(prefix, 0), Shape(prefix, 1) + Shape(all_timestep_tokens, 1)>>,
         data  |-> prefix.data \o all_timestep_tokens.data]

(***************************************************************************)
(* Inputs of a call.                                                       *)
(***************************************************************************)
\* what a caller chooses for one group besides its tensor
AnyDecl == [name : GroupNames, n_tokens : 1..MaxTokens,
            attends_to : SUBSET GroupNames]
\* two kinds of group: one that attends to nothing and one that attends to
\* every name
GroupKinds == {[name |-> "task", attends_to |-> {}],
               [name |-> "obs", attends_to |-> GroupNames]}
\* the declarations of these two kinds
KindDecl == {[name |-> kd.name, n_tokens |-> n, attends_to |-> kd.attends_to] :
                kd \in GroupKinds, n \in 1..MaxTokens}

Lists(D, n) == [1..n -> D]

MaskInput(batch, pd, td) == [batch |-> batch, pd |-> pd, td |-> td]

\* the inputs of generate_attention_mask that are explored: any two groups,
\* three groups of the two kinds, and a batch of two
MaskInputs ==
    {MaskInput(1, <<>>, td) : td \in Lists(AnyDecl, 1) \cup Lists(AnyDecl, 2)}
    \cup {MaskInput(1, pd, td) : pd \in Lists(AnyDecl, 1), td \in Lists(AnyDecl, 1)}
    \cup {MaskInput(1, pd, td) : pd \in Lists(KindDecl, 1), td \in Lists(KindDecl, 2)}
    \cup {MaskInput(1, pd, td) : pd \in Lists(KindDecl, 2), td \in Lists(KindDecl, 1)}
    \cup {MaskInput(2, pd, td) : pd \in Lists(KindDecl, 0) \cup Lists(KindDecl, 1),
                                 td \in Lists(KindDecl, 1)}

PadMasks(batch, horizon) == [1..batch -> [1..horizon -> BOOLEAN]]

NoMask == <<>>

\* consistent inputs of generate_attention_mask: every tensor has the batch
\* size and the horizon of the pad mask
InitMask ==
    \E in \in MaskInputs, horizon \in 1..MaxHorizon :
        /\ prefix_groups = [k \in 1..Len(in.pd) |->
               PrefixGroup(in.pd[k].name,
                           PrefixTokens(k, in.batch, in.pd[k].n_tokens),
                           in.pd[k].attends_to)]
        /\ timestep_groups = [k \in 1..Len(in.td) |->
               TimestepGroup(in.td[k].name,
                             TimestepTokens(k, in.batch, horizon, in.td[k].n_tokens),
                             in.td[k].attends_to)]
        /\ timestep_pad_mask \in PadMasks(in.batch, horizon)
        /\ pc = "input"
        /\ steps = <<>>
        /\ attention_mask = NoMask
        /\ input_tokens = <<>>
        /\ output = <<>>
        /\ all_prefix_outputs = <<>>
        /\ all_timestep_outputs = <<>>
        /\ error = "none"
        /\ MixIdle
        /\ TokenizerIdle

\* a direct call of BlockTransformer.generate_attention_mask
GenerateAttentionMask ==
    /\ pc = "input"
    /\ attention_mask' =
           generate_attention_mask(prefix_groups, timestep_groups, timestep_pad_mask)
    /\ pc' = "mask_done"
    /\ UNCHANGED <<prefix_groups, timestep_groups, timestep_pad_mask, steps,
                   input_tokens, output, all_prefix_outputs, all_timestep_outputs,
                   error>>
    /\ UNCHANGED <<mix_vars, tokenizer_vars>>

NextMask == GenerateAttentionMask

Spec == InitMask /\ [][NextMask]_vars

(***************************************************************************)
(* The encoder, orca.model.components.transformer.Transformer: a sequence  *)
(* to sequence function that keeps the batch size and the sequence length. *)
(* The embedding it returns at a position is a symbolic value naming the   *)
(* position and the input token there.                                     *)
(***************************************************************************)
Transformer(tokens, mask) ==
    [shape |-> tokens.shape,
     data  |-> [p \in 1..Len(tokens.data) |->
                   [kind |-> "embedding", pos |-> p - 1, of |-> tokens.data[p]]]]

(***************************************************************************)
(* __call__: the disassembly of the encoder's output                       *)
(***************************************************************************)
\* jnp.split(x, indices, axis=1) of a (batch, n) tensor
split_axis1(x, indices) ==
    [k \in 1..(Len(indices) + 1) |->
        LET piece == split(x.data, indices)[k]
        IN  [shape |-> <<Shape(x, 0), Len(piece)>>, data |-> piece]]

\* jnp.split(x, indices, axis=2) of a (batch, horizon, n) tensor
split_axis2(x, indices) ==
    [k \in 1..(Len(indices) + 1) |->
        LET rows == [t \in 1..Shape(x, 1) |-> split(x.data[t], indices)[k]]
            width == LET lo == IF k = 1 THEN 0 ELSE indices[k - 1]
                         hi == IF k = Len(indices) + 1 THEN Shape(x, 2) ELSE indices[k]
                     IN  IF hi > lo THEN hi - lo ELSE 0
        IN  [shape |-> <<Shape(x, 0), Shape(x, 1), width>>, data |-> rows]]

\* a plausible slip: the token counts passed to jnp.split without np.cumsum
split_tokens_without_cumsum(ary, n_tokens_per_group, axis) ==
    IF axis = 1 THEN split_axis1(ary, n_tokens_per_group)
                ELSE split_axis2(ary, n_tokens_per_group)

split_tokens(ary, n_tokens_per_group, axis) ==
    IF axis = 1 THEN split_axis1(ary, cumsum(n_tokens_per_group))
                ELSE split_axis2(ary, cumsum(n_tokens_per_group))

\* einops.rearrange(x, "batch (horizon n_tokens) d -> batch horizon n_tokens d",
\*                  horizon=horizon)
unfold_horizon(x, horizon) ==
    LET n_tokens == Shape(x, 1) \div horizon
    IN  [shape |-> <<Shape(x, 0), horizon, n_tokens>>,
         data  |-> [t \in 1..horizon |->
                      SubSeq(x.data, (t - 1) * n_tokens + 1, t * n_tokens)]]

\* [replace(group, tokens=embeddings) for group, embeddings in zip(groups, split)]
replace_all(groups, embeddings_split) ==
    [k \in 1..ZipLen(groups, embeddings_split) |->
        replace(groups[k], embeddings_split[k])]

\* lines 130-145: the prefix groups rebuilt from the encoder's output
prefix_outputs(pgs, out) ==
    LET n_prefix_tokens == sum(tokens_per_prefix_group(pgs))
        prefix_embeddings == split_axis1(out, <<n_prefix_tokens>>)[1]
    IN  IF Len(pgs) > 0
        THEN replace_all(pgs, split_tokens(prefix_embeddings,
                                           tokens_per_prefix_group(pgs), 1))
        ELSE <<>>

\* lines 146-160: the timestep groups rebuilt from the encoder's output
timestep_outputs(pgs, tgs, out, horizon) ==
    LET n_prefix_tokens == sum(tokens_per_prefix_group(pgs))
        timestep_embeddings ==
            unfold_horizon(split_axis1(out, <<n_prefix_tokens>>)[2], horizon)
    IN  replace_all(tgs, split_tokens(timestep_embeddings,
                                      tokens_per_timestep_group(tgs), 2))

\* a plausible slip: the assertion left out
horizon_check_skipped(tgs) == TRUE

\* line 113: all([group.tokens.shape[1] == horizon for group in timestep_groups])
horizon_check(tgs) ==
    LET horizon == Shape(tgs[1].tokens, 1)
    IN  \A k \in DOMAIN tgs : Shape(tgs[k].tokens, 1) = horizon

(***************************************************************************)
(* Inputs of a forward pass.                                               *)
(***************************************************************************)
BatchSizes == {1, 2}

\* a declaration together with the batch size and horizon of its tensor
\* (a prefix tensor has no horizon: the field is not used)
ShapedDecl(kinds, token_counts, batches, horizons) ==
    {[name |-> kd.name, attends_to |-> kd.attends_to, n_tokens |-> n,
      batch |-> b, horizon |-> h] :
        kd \in kinds, n \in token_counts, b \in batches, h \in horizons}

ForwardInput(pd, td) == [pd |-> pd, td |-> td]

\* well-shaped inputs: every tensor has the same batch size and horizon
UniformInputs ==
    UNION {{ForwardInput(pd, td) :
               pd \in UNION {Lists(ShapedDecl(GroupKinds, 1..MaxTokens,
                                              {batch}, {1}), n) : n \in {0, 1, 2}},
               td \in UNION {Lists(ShapedDecl(GroupKinds, 1..MaxTokens,
                                              {batch}, {horizon}), n) : n \in {1, 2}}} :
           batch \in BatchSizes, horizon \in 1..MaxHorizon}

\* inputs whose tensors have each a batch size and a horizon of its own
AnyShapeInputs ==
    {ForwardInput(pd, td) :
        pd \in UNION {Lists(ShapedDecl(GroupKinds, {1}, BatchSizes, {1}), n) :
                         n \in {0, 1}},
        td \in UNION {Lists(ShapedDecl(GroupKinds, {1}, BatchSizes,
                                       1..MaxHorizon), n) : n \in {1, 2}}}

ForwardInputs == UniformInputs \cup AnyShapeInputs

\* the pad masks explored for a forward pass: nothing padded, or the first
\* timestep of the first batch element padded
ForwardPadMasks(batch, horizon) ==
    {[b \in 1..batch |-> [t \in 1..horizon |-> TRUE]],
     [b \in 1..batch |-> [t \in 1..horizon |-> b # 1 \/ t # 1]]}

\* the pad mask has the batch size and horizon of timestep_groups[0]
InitForward ==
    \E in \in ForwardInputs :
        /\ prefix_groups = [k \in 1..Len(in.pd) |->
               PrefixGroup(in.pd[k].name,
                           PrefixTokens(k, in.pd[k].batch, in.pd[k].n_tokens),
                           in.pd[k].attends_to)]
        /\ timestep_groups = [k \in 1..Len(in.td) |->
               TimestepGroup(in.td[k].name,
                             TimestepTokens(k, in.td[k].batch, in.td[k].horizon,
                                            in.td[k].n_tokens),
                             in.td[k].attends_to)]
        /\ timestep_pad_mask \in ForwardPadMasks(in.td[1].batch, in.td[1].horizon)
        /\ pc = "input"
        /\ steps = <<>>
        /\ attention_mask = NoMask
        /\ input_tokens = <<>>
        /\ output = <<>>
        /\ all_prefix_outputs = <<>>
        /\ all_timestep_outputs = <<>>
        /\ error = "none"
        /\ MixIdle
        /\ TokenizerIdle

\* BlockTransformer.__call__, up to its return or to the exception it raises
Forward ==
    /\ pc = "input"
    /\ UNCHANGED <<prefix_groups, timestep_groups, timestep_pad_mask>>
    /\ UNCHANGED <<mix_vars, tokenizer_vars>>
    /\ LET horizon == Shape(timestep_groups[1].tokens, 1)
       IN  IF ~horizon_check(timestep_groups)
           THEN \* the assert of line 113 fails
                /\ pc' = "failed"
                /\ error' = "AssertionError"
                /\ steps' = <<"horizon_check">>
                /\ UNCHANGED <<attention_mask, input_tokens, output,
                               all_prefix_outputs, all_timestep_outputs>>
           ELSE /\ attention_mask' = generate_attention_mask(
                       prefix_groups, timestep_groups, timestep_pad_mask)
                /\ IF ~assemble_defined(prefix_groups, timestep_groups)
                   THEN \* a jnp.concatenate of assemble_input_tokens raises
                        /\ pc' = "failed"
                        /\ error' = "ConcatenateError"
                        /\ steps' = <<"horizon_check", "generate_attention_mask",
                                      "assemble_input_tokens">>
                        /\ UNCHANGED <<input_tokens, output, all_prefix_outputs,
                                       all_timestep_outputs>>
                   ELSE /\ input_tokens' =
                               assemble_input_tokens(prefix_groups, timestep_groups)
                        /\ output' = Transformer(input_tokens', attention_mask')
                        /\ all_prefix_outputs' = prefix_outputs(prefix_groups, output')
                        /\ all_timestep_outputs' =
                               timestep_outputs(prefix_groups, timestep_groups,
                                                output', horizon)
                        /\ pc' = "done"
                        /\ error' = "none"
                        /\ steps' = <<"horizon_check", "generate_attention_mask",
                                      "assemble_input_tokens", "transformer",
                                      "split_outputs">>

NextForward == Forward

SpecForward == InitForward /\ [][NextForward]_vars

(***************************************************************************)
(* What the claims about the attention mask speak of: the token that       *)
(* assemble_input_tokens places at each flattened position.                *)
(***************************************************************************)
\* the flattened token sequence; position p of the source is Placed[p + 1]
Placed == assemble_input_tokens(prefix_groups, timestep_groups).data

\* the group a token was passed in
GroupOf(tok) ==
    IF tok.kind = "prefix" THEN prefix_groups[tok.group]
                           ELSE timestep_groups[tok.group]

\* the token's timestep is padded for batch element b (never for a prefix token)
Padded(b, tok) == tok.kind = "timestep" /\ ~timestep_pad_mask[b][tok.t + 1]

MaskBuilt == pc = "mask_done"

\* every group of the call has a name of its own
DistinctNames ==
    /\ \A k \in DOMAIN prefix_groups, l \in DOMAIN prefix_groups :
           prefix_groups[k].name = prefix_groups[l].name => k = l
    /\ \A k \in DOMAIN timestep_groups, l \in DOMAIN timestep_groups :
           timestep_groups[k].name = timestep_groups[l].name => k = l
    /\ \A k \in DOMAIN prefix_groups, l \in DOMAIN timestep_groups :
           prefix_groups[k].name # timestep_groups[l].name

\* the visibility rule of the specification for the descriptors of a query
\* position and a key position, before padding
VisibleTo(description_i, description_j) ==
    /\ \/ description_i.group_name = description_j.group_name
       \/ description_j.group_name \in description_i.attends_to
    /\ description_i.timestep >= description_j.timestep

\* C1: with group(i), attends_to(i) and timestep(i) read from the descriptor
\* of position i, mask[i,j] is true iff (group(i) = group(j) or group(j) is in
\* attends_to(i)) and timestep(i) >= timestep(j) and the timestep of j is not
\* padded, for every batch element and head.
C1_MaskIsVisibilityRule ==
    MaskBuilt =>
        \A placed \in {Placed} :
        \A d \in {token_descriptions(prefix_groups, timestep_groups, Len(placed))} :
        \A b \in DOMAIN attention_mask : \A h \in DOMAIN attention_mask[b] :
        \A i \in 0..(Len(placed) - 1), j \in 0..(Len(placed) - 1) :
            attention_mask[b][h][i][j] <=>
                VisibleTo(d[i], d[j]) /\ ~Padded(b, placed[j + 1])

\* C3 (for calls whose groups have distinct names): no query token attends to a key token of a strictly later timestep.
C3_Causality ==
    MaskBuilt /\ DistinctNames =>
        \A placed \in {Placed} :
        \A b \in DOMAIN attention_mask : \A h \in DOMAIN attention_mask[b] :
        \A i \in 0..(Len(placed) - 1), j \in 0..(Len(placed) - 1) :
            placed[i + 1].t < placed[j + 1].t => ~attention_mask[b][h][i][j]

\* C4 (for calls whose groups have distinct names): the descriptor get_token_description assigns to position p is the
\* group name, timestep and attends_to of the token assembled at p.
C4_DescriptionMatchesAssembly ==
    MaskBuilt /\ DistinctNames =>
        \A placed \in {Placed} :
        \A p \in 0..(Len(placed) - 1) :
            get_token_description(p, prefix_groups, timestep_groups)
                = TokenMetadata(GroupOf(placed[p + 1]).name, placed[p + 1].t,
                                GroupOf(placed[p + 1]).attends_to)

\* C5: a column of a timestep token whose timestep is padded for batch
\* element b holds no true entry for b; the columns of prefix tokens are as
\* the double loop left them.
C5_PaddingExclusion ==
    MaskBuilt =>
        \A placed \in {Placed} :
        \A d \in {token_descriptions(prefix_groups, timestep_groups, Len(placed))} :
        \A b \in DOMAIN attention_mask : \A h \in DOMAIN attention_mask[b] :
        \A i \in 0..(Len(placed) - 1), j \in 0..(Len(placed) - 1) :
            /\ Padded(b, placed[j + 1]) => ~attention_mask[b][h][i][j]
            /\ placed[j + 1].kind = "prefix" =>
                   attention_mask[b][h][i][j] = mask_entry(d[i], d[j])

\* a padded timestep whose column would hold a true entry without the pad
\* mask, an unpadded timestep whose column holds one, and a prefix column
\* that holds one
C5_Witness ==
    /\ MaskBuilt
    /\ \E placed \in {Placed} :
       \E loop \in {loop_attention_mask(
                       token_descriptions(prefix_groups, timestep_groups, Len(placed)),
                       Len(placed))} :
       \E b \in DOMAIN attention_mask :
       \E i \in 0..(Len(placed) - 1), j \in 0..(Len(placed) - 1),
          k \in 0..(Len(placed) - 1), l \in 0..(Len(placed) - 1) :
           /\ Padded(b, placed[j + 1]) /\ loop[i][j] /\ ~attention_mask[b][1][i][j]
           /\ placed[l + 1].kind = "timestep" /\ ~Padded(b, placed[l + 1])
           /\ attention_mask[b][1][i][l]
           /\ placed[k + 1].kind = "prefix" /\ attention_mask[b][2][k][k]

Remove(list, c) == SubSeq(list, 1, c - 1) \o SubSeq(list, c + 1, Len(list))

\* the groups of the call other than the c-th group of the given kind
OtherGroups(kind, c) ==
    {prefix_groups[k] : k \in {x \in DOMAIN prefix_groups : kind # "prefix" \/ x # c}}
    \cup {timestep_groups[k] :
             k \in {x \in DOMAIN timestep_groups : kind # "timestep" \/ x # c}}

\* the c-th group of the given kind is an extra group C of the call: it
\* attends to nothing, no other group has its name or lists it, and the call
\* without it still has a timestep group
IsExtraGroup(kind, c) ==
    LET C == IF kind = "prefix" THEN prefix_groups[c] ELSE timestep_groups[c]
    IN  /\ C.attends_to = {}
        /\ \A g \in OtherGroups(kind, c) : g.name # C.name /\ C.name \notin g.attends_to
        /\ kind = "timestep" => Len(timestep_groups) > 1

\* the 0-based position of a token in a flattened sequence
PosOf(placed, tok) == CHOOSE p \in 0..(Len(placed) - 1) : placed[p + 1] = tok

\* C2: with an extra group C (empty attends_to, a name no other group has or
\* lists) at any place of either list, no token of another group has a true
\* entry toward a token of C, and the entries between tokens of the other
\* groups equal those of the mask built for the call without C.
C2_Independence ==
    MaskBuilt =>
        \A kind \in {"prefix", "timestep"} :
        \A c \in (IF kind = "prefix" THEN DOMAIN prefix_groups
                                     ELSE DOMAIN timestep_groups) :
            IsExtraGroup(kind, c) =>
                LET pgs == IF kind = "prefix" THEN Remove(prefix_groups, c)
                                              ELSE prefix_groups
                    tgs == IF kind = "timestep" THEN Remove(timestep_groups, c)
                                                ELSE timestep_groups
                    InC(tok) == tok.kind = kind /\ tok.group = c
                IN  \A placed \in {Placed} :
                    \A without \in {assemble_input_tokens(pgs, tgs).data} :
                    \A m \in {generate_attention_mask(pgs, tgs, timestep_pad_mask)} :
                    \A b \in DOMAIN attention_mask : \A h \in DOMAIN attention_mask[b] :
                    \A i \in 0..(Len(placed) - 1), j \in 0..(Len(placed) - 1) :
                        LET ti == placed[i + 1]
                            tj == placed[j + 1]
                        IN  /\ ~InC(ti) /\ InC(tj) => ~attention_mask[b][h][i][j]
                            /\ ~InC(ti) /\ ~InC(tj) =>
                                   attention_mask[b][h][i][j]
                                       = m[b][h][PosOf(without, ti)][PosOf(without, tj)]

\* C7: with one prefix group P (empty attends_to), one timestep group G whose
\* attends_to contains P, and no padded timestep, a G token at timestep t
\* sees exactly the tokens of P and the G tokens at timesteps 0..t, and a P
\* token sees exactly the tokens of P.
C7_PrefixTimestepVisibility ==
    /\ MaskBuilt
    /\ Len(prefix_groups) = 1 /\ Len(timestep_groups) = 1
    /\ prefix_groups[1].attends_to = {}
    /\ prefix_groups[1].name \in timestep_groups[1].attends_to
    /\ prefix_groups[1].name # timestep_groups[1].name
    /\ \A b \in DOMAIN timestep_pad_mask : \A t \in DOMAIN timestep_pad_mask[b] :
           timestep_pad_mask[b][t]
    => \A placed \in {Placed} :
       \A b \in DOMAIN attention_mask : \A h \in DOMAIN attention_mask[b] :
       \A i \in 0..(Len(placed) - 1), j \in 0..(Len(placed) - 1) :
           LET ti == placed[i + 1]
               tj == placed[j + 1]
           IN  attention_mask[b][h][i][j] <=>
                   IF ti.kind = "timestep"
                   THEN tj.kind = "prefix" \/ tj.t <= ti.t
                   ELSE tj.kind = "prefix"

(***************************************************************************)
(* Claims about the forward pass.                                          *)
(***************************************************************************)
Returned == pc = "done"

\* the encoder's output at the flattened position where the assembler
\* placed the token
EncodedAt(tok) == output.data[PosOf(input_tokens.data, tok) + 1]

\* C6: the forward pass returns as many prefix and timestep groups as it was
\* given, in input order; output group k holds at (timestep t, slot s) the
\* encoder's output of the flattened position where the assembler placed
\* input group k's token (t, s); every output tensor has the shape of its
\* input tensor.
C6_ShapeRoundTrip ==
    Returned =>
        /\ Len(all_prefix_outputs) = Len(prefix_groups)
        /\ Len(all_timestep_outputs) = Len(timestep_groups)
        /\ \A k \in DOMAIN prefix_groups :
               LET in == prefix_groups[k].tokens
                   out == all_prefix_outputs[k].tokens
               IN  /\ out.shape = in.shape
                   /\ DOMAIN out.data = DOMAIN in.data
                   /\ \A s \in DOMAIN in.data : out.data[s] = EncodedAt(in.data[s])
        /\ \A k \in DOMAIN timestep_groups :
               LET in == timestep_groups[k].tokens
                   out == all_timestep_outputs[k].tokens
               IN  /\ out.shape = in.shape
                   /\ DOMAIN out.data = DOMAIN in.data
                   /\ \A t \in DOMAIN in.data :
                          /\ DOMAIN out.data[t] = DOMAIN in.data[t]
                          /\ \A s \in DOMAIN in.data[t] :
                                 out.data[t][s] = EncodedAt(in.data[t][s])

\* a returned call with two prefix groups and two timestep groups of
\* different token counts over more than one timestep
C6_Witness ==
    /\ Returned
    /\ Len(all_prefix_outputs) = 2 /\ Len(all_timestep_outputs) = 2
    /\ Shape(all_prefix_outputs[1].tokens, 1) # Shape(all_prefix_outputs[2].tokens, 1)
    /\ Shape(all_timestep_outputs[1].tokens, 2) # Shape(all_timestep_outputs[2].tokens, 2)
    /\ Shape(all_timestep_outputs[2].tokens, 1) > 1
    /\ all_timestep_outputs[2].tokens.data[2][1].of = timestep_groups[2].tokens.data[2][1]

\* C9: a forward pass that returns leaves the caller's groups as they were,
\* and each returned group has the name and the attends_to of the input
\* group at the same list index.
C9_MetadataPreserved ==
    [][pc = "input" /\ pc' = "done" =>
          /\ prefix_groups' = prefix_groups
          /\ timestep_groups' = timestep_groups
          /\ DOMAIN all_prefix_outputs' = DOMAIN prefix_groups
          /\ DOMAIN all_timestep_outputs' = DOMAIN timestep_groups
          /\ \A k \in DOMAIN prefix_groups :
                 /\ all_prefix_outputs'[k].name = prefix_groups[k].name
                 /\ all_prefix_outputs'[k].attends_to = prefix_groups[k].attends_to
          /\ \A k \in DOMAIN timestep_groups :
                 /\ all_timestep_outputs'[k].name = timestep_groups[k].name
                 /\ all_timestep_outputs'[k].attends_to = timestep_groups[k].attends_to]_vars

\* a returned call whose groups differ in name and attends_to and whose
\* returned tokens are not the tokens passed in
C9_Witness ==
    /\ Returned
    /\ Len(all_prefix_outputs) = 2 /\ Len(all_timestep_outputs) = 2
    /\ all_prefix_outputs[1].attends_to # {} /\ all_prefix_outputs[2].attends_to = {}
    /\ all_timestep_outputs[1].name # all_timestep_outputs[2].name
    /\ all_timestep_outputs[2].attends_to # {}
    /\ all_prefix_outputs[1].tokens # prefix_groups[1].tokens
    /\ all_timestep_outputs[1].tokens # timestep_groups[1].tokens

\* two timestep groups of the call differ in horizon
HorizonMismatch ==
    \E k \in DOMAIN timestep_groups, l \in DOMAIN timestep_groups :
        Shape(timestep_groups[k].tokens, 1) # Shape(timestep_groups[l].tokens, 1)

\* C10: a call whose timestep groups differ in horizon fails at the horizon
\* check: the attention mask is not built, the tokens are not assembled, the
\* encoder is not invoked and no group is returned.
C10_HorizonMismatchFailsFirst ==
    pc # "input" /\ HorizonMismatch =>
        /\ pc = "failed"
        /\ error = "AssertionError"
        /\ steps = <<"horizon_check">>
        /\ attention_mask = NoMask
        /\ input_tokens = <<>>
        /\ output = <<>>
        /\ all_prefix_outputs = <<>>
        /\ all_timestep_outputs = <<>>

\* a failed call whose timestep groups differ in horizon and in nothing else
C10_Witness ==
    /\ pc = "failed"
    /\ HorizonMismatch
    /\ Len(timestep_groups) = 2
    /\ Shape(timestep_groups[1].tokens, 0) = Shape(timestep_groups[2].tokens, 0)
    /\ \A k \in DOMAIN prefix_groups :
           Shape(prefix_groups[k].tokens, 0) = Shape(timestep_groups[1].tokens, 0)

\* two timestep groups of the call differ in batch size
BatchMismatch ==
    \E k \in DOMAIN timestep_groups, l \in DOMAIN timestep_groups :
        Shape(timestep_groups[k].tokens, 0) # Shape(timestep_groups[l].tokens, 0)

\* C11: a call whose timestep groups differ in batch size fails, and it fails
\* before the attention mask is constructed: the mask builder has not run and
\* no mask exists when the error is raised.
C11_BatchMismatchFailsBeforeMask ==
    pc # "input" /\ BatchMismatch =>
        /\ pc = "failed"
        /\ error # "none"
        /\ \A k \in DOMAIN steps : steps[k] # "generate_attention_mask"
        /\ attention_mask = NoMask

(***************************************************************************)
(* orca/data/oxe/oxe_dataset_mixes.py: make_oxe_dataset_kwargs_and_weights. *)
(*                                                                         *)
(* A Python dict is a function from its keys to its values, a list is a    *)
(* sequence, a (name, weight) tuple is a record.  Weights are only carried *)
(* along, never computed with, and are modelled as integers.  The registry *)
(* oxe_dataset_configs.OXE_DATASET_KWARGS and the enumeration              *)
(* ActionEncoding are modelled from the interface the specification gives  *)
(* them.                                                                   *)
(***************************************************************************)

MaxMix == 3        \* longest data_mix
MaxCameras == 2    \* largest camera count asked for
MaxCalls == 3      \* most calls made in one process

ActionEncoding == [EEF_POS |-> "EEF_POS", JOINT_POS |-> "JOINT_POS"]

\* Python's ary[start:] for any integer start
slice_from(ary, start) ==
    LET n == Len(ary)
        lo == IF start < 0 THEN (IF start + n < 0 THEN 0 ELSE start + n)
              ELSE (IF start > n THEN n ELSE start)
    IN  SubSeq(ary, lo + 1, n)

\* Python's ary[:stop] for any integer stop
slice_to(ary, stop) ==
    LET n == Len(ary)
        hi == IF stop < 0 THEN (IF stop + n < 0 THEN 0 ELSE stop + n)
              ELSE (IF stop > n THEN n ELSE stop)
    IN  SubSeq(ary, 1, hi)

\* dict.pop(key) for a key the dict has
pop(d, key) == [k \in DOMAIN d \ {key} |-> d[k]]

\* d[key] = value
setitem(d, key, value) == [k \in DOMAIN d \cup {key} |-> IF k = key THEN value ELSE d[k]]

\* {**d1, **d2}
spread(d1, d2) == [k \in DOMAIN d1 \cup DOMAIN d2 |-> IF k \in DOMAIN d2 THEN d2[k] ELSE d1[k]]

\* the names of the entries of a mix, in order
mix_names(mix) == [k \in DOMAIN mix |-> mix[k].dataset]

\* lines 130-137: the state of the deduplication loop after the given entries
RECURSIVE dedup_loop(_)
dedup_loop(mix) ==
    IF mix = <<>>
    THEN [filtered_datasets |-> <<>>, included_dataset_names |-> <<>>, printed |-> <<>>]
    ELSE LET before == dedup_loop(SubSeq(mix, 1, Len(mix) - 1))
             entry == mix[Len(mix)]
         IN  IF \A k \in DOMAIN before.included_dataset_names : before.included_dataset_names[k] # entry.dataset
             THEN [filtered_datasets |-> Append(before.filtered_datasets, entry),
                   included_dataset_names |-> Append(before.included_dataset_names, entry.dataset),
                   printed |-> before.printed]
             ELSE [before EXCEPT !.printed = Append(@, <<"Skipping duplicate", entry.dataset, entry.weight>>)]

\* the deduplication loop that lets a later duplicate replace the entry kept
RECURSIVE dedup_loop_last_wins(_)
dedup_loop_last_wins(mix) ==
    IF mix = <<>>
    THEN [filtered_datasets |-> <<>>, included_dataset_names |-> <<>>, printed |-> <<>>]
    ELSE LET before == dedup_loop_last_wins(SubSeq(mix, 1, Len(mix) - 1))
             entry == mix[Len(mix)]
         IN  IF \A k \in DOMAIN before.included_dataset_names : before.included_dataset_names[k] # entry.dataset
             THEN [filtered_datasets |-> Append(before.filtered_datasets, entry),
                   included_dataset_names |-> Append(before.included_dataset_names, entry.dataset),
                   printed |-> before.printed]
             ELSE [before EXCEPT
                      !.filtered_datasets = [k \in DOMAIN @ |-> IF @[k].dataset = entry.dataset THEN entry ELSE @[k]],
                      !.printed = Append(@, <<"Skipping duplicate", entry.dataset, entry.weight>>)]

\* lines 129-137: the mix the main loop runs over, and what was printed
filtered_mix_last_wins(mix, dedup) ==
    IF dedup
    THEN LET r == dedup_loop_last_wins(mix) IN [data_mix |-> r.filtered_datasets, printed |-> r.printed]
    ELSE [data_mix |-> mix, printed |-> <<>>]

filtered_mix(mix, dedup) ==
    IF dedup
    THEN LET r == dedup_loop(mix) IN [data_mix |-> r.filtered_datasets, printed |-> r.printed]
    ELSE [data_mix |-> mix, printed |-> <<>>]

\* the dict dataset_kwargs is bound to: a fresh copy, or (ref = "registry")
\* the registry's own dict of the dataset
deepcopy_alias(registry, dataset) == [registry |-> registry, local |-> registry[dataset], ref |-> "registry"]

\* line 141: dataset_kwargs = copy.deepcopy(OXE_DATASET_KWARGS[dataset])
deepcopy(registry, dataset) == [registry |-> registry, local |-> registry[dataset], ref |-> "local"]

\* the dict dataset_kwargs refers to
load(env, dataset) == IF env.ref = "local" THEN env.local ELSE env.registry[dataset]

\* the memory after the dict dataset_kwargs refers to became d
store(env, dataset, d) ==
    IF env.ref = "local"
    THEN [env EXCEPT !.local = d]
    ELSE [env EXCEPT !.registry = [@ EXCEPT ![dataset] = d]]

\* the trimming expression without its test of n_wrist_cameras
trim_unguarded(keys, n_third, n_wrist) == slice_to(keys, n_third) \o slice_from(keys, 0 - n_wrist)

\* lines 150-156 and 157-163: keys[:n_third] + (keys[-n_wrist:] if n_wrist else [])
trim(keys, n_third, n_wrist) ==
    slice_to(keys, n_third) \o (IF n_wrist # 0 THEN slice_from(keys, 0 - n_wrist) ELSE <<>>)

\* lines 164-172, for a dataset_kwargs that has "depth_obs_keys"
pop_and_add(env, dataset, opts) ==
    LET env4 == IF ~opts.load_depth
                THEN store(env, dataset, pop(load(env, dataset), "depth_obs_keys"))
                ELSE env
    IN  IF ~opts.load_proprio /\ "state_obs_keys" \notin DOMAIN load(env4, dataset)
        THEN [registry |-> env4.registry, status |-> "KeyError", config |-> <<>>]
        ELSE LET env5 == IF ~opts.load_proprio
                         THEN store(env4, dataset, pop(load(env4, dataset), "state_obs_keys"))
                         ELSE env4
             IN  [registry |-> env5.registry, status |-> "appended",
                  config |-> spread([name |-> dataset, data_dir |-> opts.data_dir],
                                    load(env5, dataset))]

\* lines 149-172, for a dataset_kwargs with a supported action encoding
adjust_and_add(env, dataset, opts) ==
    IF "image_obs_keys" \notin DOMAIN load(env, dataset)
    THEN [registry |-> env.registry, status |-> "KeyError", config |-> <<>>]
    ELSE LET dk == load(env, dataset)
             env2 == store(env, dataset,
                         setitem(dk, "image_obs_keys",
                                 trim(dk["image_obs_keys"], opts.n_third_person_cameras,
                                      opts.n_wrist_cameras)))
         IN  IF "depth_obs_keys" \notin DOMAIN load(env2, dataset)
             THEN [registry |-> env2.registry, status |-> "KeyError", config |-> <<>>]
             ELSE LET dk2 == load(env2, dataset)
                      env3 == store(env2, dataset,
                                  setitem(dk2, "depth_obs_keys",
                                          trim(dk2["depth_obs_keys"],
                                               opts.n_third_person_cameras,
                                               opts.n_wrist_cameras)))
                  IN  pop_and_add(env3, dataset, opts)

\* lines 141-172: one iteration of the main loop
resolve_entry(registry, dataset, opts) ==
    IF dataset \notin DOMAIN registry
    THEN [registry |-> registry, status |-> "KeyError", config |-> <<>>]
    ELSE LET env == deepcopy(registry, dataset)
         IN  IF "action_encoding" \notin DOMAIN load(env, dataset)
             THEN [registry |-> env.registry, status |-> "KeyError", config |-> <<>>]
             ELSE IF load(env, dataset)["action_encoding"] # ActionEncoding.EEF_POS
                  THEN [registry |-> env.registry, status |-> "skipped", config |-> <<>>]
                  ELSE adjust_and_add(env, dataset, opts)

\* the loop state after an iteration whose skip also records the weight
accumulate_weight_always(acc, r, entry) ==
    IF r.status = "KeyError"
    THEN [acc EXCEPT !.registry = r.registry, !.error = "KeyError"]
    ELSE IF r.status = "skipped"
         THEN [acc EXCEPT !.registry = r.registry,
                          !.weights = Append(@, entry.weight),
                          !.printed = Append(@, <<"Skipping", entry.dataset>>)]
         ELSE [acc EXCEPT !.registry = r.registry,
                          !.data_kwargs_list = Append(@, r.config),
                          !.weights = Append(@, entry.weight)]

\* lines 142-147 and 170-173: the loop state after an iteration
accumulate(acc, r, entry) ==
    IF r.status = "KeyError"
    THEN [acc EXCEPT !.registry = r.registry, !.error = "KeyError"]
    ELSE IF r.status = "skipped"
         THEN [acc EXCEPT !.registry = r.registry,
                          !.printed = Append(@, <<"Skipping", entry.dataset>>)]
         ELSE [acc EXCEPT !.registry = r.registry,
                          !.data_kwargs_list = Append(@, r.config),
                          !.weights = Append(@, entry.weight)]

\* lines 139-173: the main loop over the given entries; an exception ends it
RECURSIVE main_loop(_, _, _)
main_loop(registry, mix, opts) ==
    IF mix = <<>>
    THEN [registry |-> registry, data_kwargs_list |-> <<>>, weights |-> <<>>,
          printed |-> <<>>, error |-> "none"]
    ELSE LET before == main_loop(registry, SubSeq(mix, 1, Len(mix) - 1), opts)
             entry == mix[Len(mix)]
         IN  IF before.error # "none"
             THEN before
             ELSE accumulate(before, resolve_entry(before.registry, entry.dataset, opts), entry)

\* lines 106-175: the registry after the call, the lists it returns, what it
\* printed and the exception it raised
make_oxe_dataset_kwargs_and_weights(registry, mix, opts) ==
    LET f == filtered_mix(mix, opts.deduplicate)
        r == main_loop(registry, f.data_mix, opts)
    IN  [r EXCEPT !.printed = f.printed \o @]

(***************************************************************************)
(* Registries, arguments and calls of make_oxe_dataset_kwargs_and_weights. *)
(***************************************************************************)

\* a registry entry, with the four fields of the registry's interface
RegistryEntry(encoding, image_keys, depth_keys) ==
    [action_encoding |-> encoding, image_obs_keys |-> image_keys,
     depth_obs_keys |-> depth_keys, state_obs_keys |-> <<"state">>]

\* which datasets have the supported action encoding
EncodingLayouts ==
    { [a |-> ActionEncoding.EEF_POS, b |-> ActionEncoding.EEF_POS, c |-> ActionEncoding.EEF_POS],
      [a |-> ActionEncoding.EEF_POS, b |-> ActionEncoding.JOINT_POS, c |-> ActionEncoding.EEF_POS],
      [a |-> ActionEncoding.JOINT_POS, b |-> ActionEncoding.EEF_POS, c |-> ActionEncoding.JOINT_POS] }

\* the registered key lists, image keys first and depth keys second
KeyLayouts ==
    { [a |-> << <<"cam0", "cam1", "cam2", "wrist0">>, <<"depth0", "depth_wrist0">> >>,
       b |-> << <<"cam0">>, <<>> >>,
       c |-> << <<"cam0", "wrist0">>, <<"depth0">> >>],
      [a |-> << <<>>, <<>> >>,
       b |-> << <<"cam0", "wrist0">>, <<"depth0", "depth_wrist0">> >>,
       c |-> << <<"cam0", "cam1", "wrist0">>, <<"depth0">> >>] }

DatasetNames == {"a", "b", "c"}

Registries ==
    { [n \in DatasetNames |-> RegistryEntry(enc[n], keys[n][1], keys[n][2])] :
          enc \in EncodingLayouts, keys \in KeyLayouts }

MixEntry(dataset, weight) == [dataset |-> dataset, weight |-> weight]

\* the entries of the mixes: "a" occurs with two weights
MixEntries == {MixEntry("a", 1), MixEntry("b", 2), MixEntry("a", 3), MixEntry("c", 1)}

Mixes == UNION {[1..n -> MixEntries] : n \in 0..MaxMix}

\* mixes that name every dataset once, or one dataset
PlainMixes == {<<MixEntry("a", 1)>>, <<MixEntry("a", 1), MixEntry("b", 2), MixEntry("c", 1)>>}

\* mixes that name a dataset the registry does not have
UnknownMixes == {<<MixEntry("zz", 1)>>, <<MixEntry("a", 1), MixEntry("zz", 1), MixEntry("b", 2)>>}

MixInput(mix, dedup, n_third, n_wrist, depth, proprio) ==
    [data_mix |-> mix, data_dir |-> "gs://data", deduplicate |-> dedup,
     n_third_person_cameras |-> n_third, n_wrist_cameras |-> n_wrist,
     load_depth |-> depth, load_proprio |-> proprio]

\* every mix with the default camera counts and features
DedupInputs ==
    {MixInput(mix, dedup, 1, 0, TRUE, TRUE) : mix \in Mixes \cup UnknownMixes, dedup \in BOOLEAN}

\* every camera count and feature selection on the plain mixes
TrimInputs ==
    UNION {{MixInput(mix, TRUE, n_third, n_wrist, depth, proprio) :
                n_third \in 0..MaxCameras, n_wrist \in 0..MaxCameras} :
           mix \in PlainMixes, depth \in BOOLEAN, proprio \in BOOLEAN}

MixInputs == DedupInputs \cup TrimInputs

\* the arguments of the call in progress or of the last call
options ==
    [data_dir |-> data_dir, deduplicate |-> deduplicate,
     n_third_person_cameras |-> n_third_person_cameras,
     n_wrist_cameras |-> n_wrist_cameras,
     load_depth |-> load_depth, load_proprio |-> load_proprio]

\* the caller binds the arguments of a call
BindArguments(in) ==
    /\ data_mix' = in.data_mix
    /\ data_dir' = in.data_dir
    /\ deduplicate' = in.deduplicate
    /\ n_third_person_cameras' = in.n_third_person_cameras
    /\ n_wrist_cameras' = in.n_wrist_cameras
    /\ load_depth' = in.load_depth
    /\ load_proprio' = in.load_proprio

\* the registry is loaded as oxe_dataset_configs defines it and a first call
\* is about to run
InitMix ==
    \E registry \in Registries, in \in MixInputs :
        /\ registered = registry
        /\ OXE_DATASET_KWARGS = registry
        /\ data_mix = in.data_mix
        /\ data_dir = in.data_dir
        /\ deduplicate = in.deduplicate
        /\ n_third_person_cameras = in.n_third_person_cameras
        /\ n_wrist_cameras = in.n_wrist_cameras
        /\ load_depth = in.load_depth
        /\ load_proprio = in.load_proprio
        /\ mix_pc = "input"
        /\ data_kwargs_list = <<>>
        /\ weights = <<>>
        /\ printed = <<>>
        /\ mix_error = "none"
        /\ n_calls = 0
        /\ prefix_groups = <<>>
        /\ timestep_groups = <<>>
        /\ timestep_pad_mask = <<>>
        /\ pc = "idle"
        /\ steps = <<>>
        /\ attention_mask = NoMask
        /\ input_tokens = <<>>
        /\ output = <<>>
        /\ all_prefix_outputs = <<>>
        /\ all_timestep_outputs = <<>>
        /\ error = "none"
        /\ TokenizerIdle

\* make_oxe_dataset_kwargs_and_weights, up to its return or to the exception
\* it raises
MakeOxeDatasetKwargsAndWeights ==
    /\ mix_pc = "input"
    /\ LET r == make_oxe_dataset_kwargs_and_weights(OXE_DATASET_KWARGS, data_mix, options)
       IN  /\ OXE_DATASET_KWARGS' = r.registry
           /\ printed' = r.printed
           /\ mix_error' = r.error
           /\ IF r.error = "none"
              THEN /\ data_kwargs_list' = r.data_kwargs_list
                   /\ weights' = r.weights
                   /\ mix_pc' = "done"
              ELSE /\ data_kwargs_list' = <<>>
                   /\ weights' = <<>>
                   /\ mix_pc' = "failed"
    /\ n_calls' = n_calls + 1
    /\ UNCHANGED <<registered, data_mix, data_dir, deduplicate, n_third_person_cameras,
                   n_wrist_cameras, load_depth, load_proprio>>
    /\ UNCHANGED <<transformer_vars, tokenizer_vars>>

\* the caller calls again, in the same process, with any camera counts and
\* feature selection
CallAgain ==
    /\ mix_pc \in {"done", "failed"}
    /\ n_calls < MaxCalls
    /\ \E in \in TrimInputs : BindArguments(in)
    /\ mix_pc' = "input"
    /\ data_kwargs_list' = <<>>
    /\ weights' = <<>>
    /\ printed' = <<>>
    /\ mix_error' = "none"
    /\ UNCHANGED <<registered, OXE_DATASET_KWARGS, n_calls>>
    /\ UNCHANGED <<transformer_vars, tokenizer_vars>>

NextMix == MakeOxeDatasetKwargsAndWeights \/ CallAgain

SpecMix == InitMix /\ [][NextMix]_vars

(***************************************************************************)
(* Properties of make_oxe_dataset_kwargs_and_weights.                      *)
(***************************************************************************)

\* the call returned
MixReturned == mix_pc = "done"

\* the dataset's registered action encoding is the supported one
Supported(dataset) ==
    dataset \in DOMAIN registered /\ registered[dataset].action_encoding = ActionEncoding.EEF_POS

\* the position of the first occurrence of the dataset in the mix passed in
FirstOccurrence(dataset) ==
    CHOOSE i \in DOMAIN data_mix :
        data_mix[i].dataset = dataset /\ \A j \in 1..(i - 1) : data_mix[j].dataset # dataset

\* C12: with deduplicate=true the call returns at most one entry per dataset
\* name; every name of the mix with a supported action encoding has an entry,
\* which carries the weight of the name's first occurrence in the mix; and the
\* entries are in the order of the first occurrences.
C12_DeduplicateFirstWins ==
    MixReturned /\ deduplicate =>
        /\ \A k \in DOMAIN data_kwargs_list, l \in DOMAIN data_kwargs_list :
               k # l => data_kwargs_list[k]["name"] # data_kwargs_list[l]["name"]
        /\ \A i \in DOMAIN data_mix :
               Supported(data_mix[i].dataset) =>
                   \E k \in DOMAIN data_kwargs_list :
                       /\ data_kwargs_list[k]["name"] = data_mix[i].dataset
                       /\ k \in DOMAIN weights
                       /\ weights[k] = data_mix[FirstOccurrence(data_mix[i].dataset)].weight
        /\ \A k \in DOMAIN data_kwargs_list :
               \E i \in DOMAIN data_mix : data_mix[i].dataset = data_kwargs_list[k]["name"]
        /\ \A k \in DOMAIN data_kwargs_list, l \in DOMAIN data_kwargs_list :
               k < l => FirstOccurrence(data_kwargs_list[k]["name"])
                            < FirstOccurrence(data_kwargs_list[l]["name"])

\* a deduplicating call returned for a mix that names a supported dataset
\* twice, with different weights, around another supported dataset
C12_Witness ==
    /\ MixReturned /\ deduplicate
    /\ Len(data_mix) = 3
    /\ data_mix[1].dataset = data_mix[3].dataset
    /\ data_mix[1].weight # data_mix[3].weight
    /\ data_mix[2].dataset # data_mix[1].dataset
    /\ Supported(data_mix[1].dataset) /\ Supported(data_mix[2].dataset)
    /\ Len(data_kwargs_list) = 2
    /\ weights = <<data_mix[1].weight, data_mix[2].weight>>
    /\ Len(printed) = 1

\* the positions of the mix whose entries the call is to resolve: those of
\* supported datasets and, when deduplicating, first occurrences only
KeptPositions ==
    {i \in DOMAIN data_mix :
        /\ Supported(data_mix[i].dataset)
        /\ deduplicate => \A j \in 1..(i - 1) : data_mix[j].dataset # data_mix[i].dataset}

\* the k-th smallest element of a set of numbers
KthSmallest(S, k) == CHOOSE x \in S : Cardinality({y \in S : y < x}) = k - 1

\* every dataset the mix names is registered
AllRegistered == \A i \in DOMAIN data_mix : data_mix[i].dataset \in DOMAIN registered

\* C13: the two returned lists have equal length and are aligned, the k-th
\* config and the k-th weight being the name and the weight of the k-th mix
\* entry that is resolved; a dataset whose action encoding is not EEF_POS is
\* in neither list, and skipping it neither aborts the call nor reorders or
\* drops the remaining entries.
C13_ListsAligned ==
    /\ mix_pc \in {"done", "failed"} /\ AllRegistered => MixReturned
    /\ MixReturned =>
        /\ Len(data_kwargs_list) = Len(weights)
        /\ Len(weights) = Cardinality(KeptPositions)
        /\ \A k \in DOMAIN data_kwargs_list :
               /\ data_kwargs_list[k]["name"] = data_mix[KthSmallest(KeptPositions, k)].dataset
               /\ weights[k] = data_mix[KthSmallest(KeptPositions, k)].weight
               /\ Supported(data_kwargs_list[k]["name"])

\* a call returned for a mix whose second entry is an unsupported dataset
\* between two supported ones of different weight
C13_Witness ==
    /\ MixReturned
    /\ Len(data_mix) = 3
    /\ Supported(data_mix[1].dataset) /\ Supported(data_mix[3].dataset)
    /\ data_mix[2].dataset \in DOMAIN registered /\ ~Supported(data_mix[2].dataset)
    /\ data_mix[1].dataset # data_mix[3].dataset
    /\ data_mix[1].weight # data_mix[3].weight
    /\ Len(data_kwargs_list) = 2
    /\ weights = <<data_mix[1].weight, data_mix[3].weight>>
    /\ printed = << <<"Skipping", data_mix[2].dataset>> >>

\* the smaller of two numbers
Min(a, b) == IF a < b THEN a ELSE b

\* the first n_third keys of a list followed by its last n_wrist keys
FirstAndLast(keys, n_third, n_wrist) ==
    LET n == Len(keys)
        f == Min(n_third, n)
        w == Min(n_wrist, n)
    IN  [i \in 1..(f + w) |-> IF i <= f THEN keys[i] ELSE keys[n - w + (i - f)]]

\* C14: in every returned config image_obs_keys is the first
\* n_third_person_cameras keys of the registered list followed by the last
\* n_wrist_cameras keys of the registered list; with n_wrist_cameras = 0 it is
\* the first n_third_person_cameras keys alone.
C14_CameraTrimming ==
    MixReturned =>
        \A k \in DOMAIN data_kwargs_list :
            LET keys == registered[data_kwargs_list[k]["name"]].image_obs_keys
            IN  /\ data_kwargs_list[k]["image_obs_keys"] =
                       FirstAndLast(keys, n_third_person_cameras, n_wrist_cameras)
                /\ n_wrist_cameras = 0 =>
                       /\ Len(data_kwargs_list[k]["image_obs_keys"]) <= n_third_person_cameras
                       /\ \A i \in DOMAIN data_kwargs_list[k]["image_obs_keys"] :
                              data_kwargs_list[k]["image_obs_keys"][i] = keys[i]

\* a call with one third-person and one wrist camera returned a config of a
\* dataset registered with three third-person keys and a wrist key
C14_Witness ==
    /\ MixReturned
    /\ n_third_person_cameras = 1 /\ n_wrist_cameras = 1
    /\ \E k \in DOMAIN data_kwargs_list :
           /\ registered[data_kwargs_list[k]["name"]].image_obs_keys
                  = <<"cam0", "cam1", "cam2", "wrist0">>
           /\ data_kwargs_list[k]["image_obs_keys"] = <<"cam0", "wrist0">>

\* the number of occurrences of a key in a list
Count(keys, key) == Cardinality({i \in DOMAIN keys : keys[i] = key})

\* no key occurs more often in the resolved list than in the registered one,
\* and the resolved list is no longer
SubList(resolved, keys) ==
    /\ Len(resolved) <= Len(keys)
    /\ \A i \in DOMAIN resolved : Count(resolved, resolved[i]) <= Count(keys, resolved[i])

\* C15: in every returned config image_obs_keys is a sub-list of the
\* registered image_obs_keys, and depth_obs_keys, where the config has it, is
\* a sub-list of the registered depth_obs_keys.
C15_TrimmingNeverAddsKeys ==
    MixReturned =>
        \A k \in DOMAIN data_kwargs_list :
            LET entry == registered[data_kwargs_list[k]["name"]]
            IN  /\ SubList(data_kwargs_list[k]["image_obs_keys"], entry.image_obs_keys)
                /\ "depth_obs_keys" \in DOMAIN data_kwargs_list[k] =>
                       SubList(data_kwargs_list[k]["depth_obs_keys"], entry.depth_obs_keys)

\* C17: no call modifies the registry: after any sequence of calls the
\* registry in memory is the registry as registered, and therefore a call
\* returns what the first call with its arguments returned, which is what the
\* function returns on the registry as registered.
C17_RegistryUnchanged ==
    /\ OXE_DATASET_KWARGS = registered
    /\ MixReturned =>
           LET first == make_oxe_dataset_kwargs_and_weights(registered, data_mix, options)
           IN  /\ first.error = "none"
               /\ data_kwargs_list = first.data_kwargs_list
               /\ weights = first.weights

\* a second or later call that trims the image keys of a dataset and pops
\* its depth and proprioception keys has returned
C17_Witness ==
    /\ MixReturned
    /\ n_calls >= 2
    /\ ~load_depth /\ ~load_proprio
    /\ \E k \in DOMAIN data_kwargs_list :
           /\ Len(data_kwargs_list[k]["image_obs_keys"])
                  < Len(registered[data_kwargs_list[k]["name"]].image_obs_keys)
           /\ "depth_obs_keys" \notin DOMAIN data_kwargs_list[k]
           /\ "state_obs_keys" \notin DOMAIN data_kwargs_list[k]
           /\ "depth_obs_keys" \in DOMAIN OXE_DATASET_KWARGS[data_kwargs_list[k]["name"]]

(***************************************************************************)
(* orca/model/components/tokenizers.py: extract_inputs of                  *)
(* ImageTokenizer.__call__.                                                *)
(*                                                                         *)
(* A string is the sequence of its characters.  A regular expression is    *)
(* the sequence of its atoms: a character, "." (any character) or ".*"     *)
(* (any string).  A tensor is the key it was stored under and its rank.    *)
(***************************************************************************)

MaxPatterns == 2   \* longest list of patterns

\* the characters of the keys, in the order of their code points
Alphabet == <<"0", "1", "d", "i">>

ord(ch) == CHOOSE k \in DOMAIN Alphabet : Alphabet[k] = ch

\* Python's str.__lt__
RECURSIVE str_lt(_, _)
str_lt(a, b) ==
    IF a = <<>> THEN b # <<>>
    ELSE IF b = <<>> THEN FALSE
    ELSE IF ord(Head(a)) < ord(Head(b)) THEN TRUE
    ELSE IF ord(Head(a)) > ord(Head(b)) THEN FALSE
    ELSE str_lt(Tail(a), Tail(b))

\* sorted(keys) for a set of strings
RECURSIVE sorted(_)
sorted(keys) ==
    IF keys = {} THEN <<>>
    ELSE LET least == CHOOSE x \in keys : \A y \in keys : y # x => str_lt(x, y)
         IN  <<least>> \o sorted(keys \ {least})

\* re.compile(pattern).match(string): the pattern matches a prefix of the string
RECURSIVE re_match(_, _)
re_match(pattern, string) ==
    IF pattern = <<>> THEN TRUE
    ELSE IF Head(pattern) = ".*"
         THEN \E k \in 0..Len(string) :
                  re_match(Tail(pattern), SubSeq(string, k + 1, Len(string)))
         ELSE /\ string # <<>>
              /\ Head(pattern) = "." \/ Head(pattern) = Head(string)
              /\ re_match(Tail(pattern), Tail(string))

\* filter(re.compile(r_key).match, keys) for a list of keys
filter_match(r_key, keys) == SelectSeq(keys, LAMBDA key : re_match(r_key, key))

\* lines 84-85: the keys the two loops visit, in the order they visit them
RECURSIVE visited_keys(_, _)
visited_keys(patterns, dict) ==
    IF patterns = <<>> THEN <<>>
    ELSE visited_keys(SubSeq(patterns, 1, Len(patterns) - 1), dict)
             \o filter_match(patterns[Len(patterns)], sorted(DOMAIN dict))

\* lines 82-89: the list returned, or the failure of the assert of line 87
extract_inputs(patterns, dict, spatial) ==
    LET keys == visited_keys(patterns, dict)
    IN  IF spatial /\ \E k \in DOMAIN keys : ~(dict[keys[k]].ndim >= 4)
        THEN [error |-> "AssertionError", extracted_outputs |-> <<>>]
        ELSE [error |-> "none", extracted_outputs |-> [k \in DOMAIN keys |-> dict[keys[k]]]]

\* the keys of the observations: "d0", "i", "i0", "i1"
InputKeys == {<<"d", "0">>, <<"i">>, <<"i", "0">>, <<"i", "1">>}

\* the patterns: "i.*", "d.*", ".*", "i0", "i."
Patterns == {<<"i", ".*">>, <<"d", ".*">>, <<".*">>, <<"i", "0">>, <<"i", ".">>}

Tensor(key, ndim) == [key |-> key, ndim |-> ndim]

\* every input is an image stack of rank 5, or the depth input has rank 2
RankLayouts == {[key \in InputKeys |-> 5], [key \in InputKeys |-> IF Head(key) = "d" THEN 2 ELSE 5]}

InputDicts ==
    {[key \in keys |-> Tensor(key, rank[key])] : keys \in SUBSET InputKeys, rank \in RankLayouts}

InitExtract ==
    /\ regex_keys \in UNION {[1..n -> Patterns] : n \in 0..MaxPatterns}
    /\ inputs \in InputDicts
    /\ check_spatial \in BOOLEAN
    /\ extract_pc = "input"
    /\ extracted_outputs = <<>>
    /\ prefix_groups = <<>>
    /\ timestep_groups = <<>>
    /\ timestep_pad_mask = <<>>
    /\ pc = "idle"
    /\ steps = <<>>
    /\ attention_mask = NoMask
    /\ input_tokens = <<>>
    /\ output = <<>>
    /\ all_prefix_outputs = <<>>
    /\ all_timestep_outputs = <<>>
    /\ error = "none"
    /\ MixIdle

\* a call of extract_inputs, up to its return or to the failure of its assert
ExtractInputs ==
    /\ extract_pc = "input"
    /\ LET r == extract_inputs(regex_keys, inputs, check_spatial)
       IN  /\ extracted_outputs' = r.extracted_outputs
           /\ extract_pc' = IF r.error = "none" THEN "done" ELSE "failed"
    /\ UNCHANGED <<regex_keys, inputs, check_spatial>>
    /\ UNCHANGED <<transformer_vars, mix_vars>>

NextExtract == ExtractInputs

SpecExtract == InitExtract /\ [][NextExtract]_vars

\* the position of the first pattern that matches the key
FirstPattern(key) == CHOOSE p \in DOMAIN regex_keys : re_match(regex_keys[p], key) /\ \A q \in 1..(p - 1) : ~re_match(regex_keys[q], key)

\* no pattern is configured twice
DistinctPatterns ==
    \A p \in DOMAIN regex_keys, q \in DOMAIN regex_keys : p # q => regex_keys[p] # regex_keys[q]

\* C16: for patterns configured once each, extract_inputs returns the inputs
\* whose keys match a pattern, each of them once (also when several patterns
\* match its key), ordered by the first pattern that matches the key and, for
\* one pattern, by the sorted order of the keys.
C16_OrderedAndOnce ==
    extract_pc = "done" /\ DistinctPatterns =>
        /\ \A k \in DOMAIN inputs :
               (\E p \in DOMAIN regex_keys : re_match(regex_keys[p], k))
                   <=> (\E i \in DOMAIN extracted_outputs : extracted_outputs[i] = inputs[k])
        /\ \A i \in DOMAIN extracted_outputs : extracted_outputs[i].key \in DOMAIN inputs
        /\ \A i \in DOMAIN extracted_outputs, j \in DOMAIN extracted_outputs :
               i # j => extracted_outputs[i].key # extracted_outputs[j].key
        /\ \A i \in DOMAIN extracted_outputs, j \in DOMAIN extracted_outputs :
               i < j =>
                   \/ FirstPattern(extracted_outputs[i].key) < FirstPattern(extracted_outputs[j].key)
                   \/ /\ FirstPattern(extracted_outputs[i].key) = FirstPattern(extracted_outputs[j].key)
                      /\ ~str_lt(extracted_outputs[j].key, extracted_outputs[i].key)

====
